---- MODULE Spec2Model ----
(***************************************************************************)
(* mind_sonic: the text chunkers that feed the OpenAI text-to-speech API   *)
(* and the two synthesize-then-stitch pipelines built on them.             *)
(*                                                                         *)
(*   bin/convert_script_to_audio.py          split_text,                   *)
(*                                           convert_script_to_audio       *)
(*   src/mind_sonic/tools/openai_tts_tool.py OpenAITTSTool._chunk_text,    *)
(*                                           _run, _process_chunks         *)
(*                                                                         *)
(* A Python str is a sequence of one-character strings.  MAX_CHUNK_SIZE    *)
(* (4000 in both files) is the parameter max_length of the model, drawn    *)
(* from 1..MaxLimit, so that every tier of the chunkers is reached by      *)
(* texts of a few characters.                                              *)
(***************************************************************************)
EXTENDS Integers, Sequences, FiniteSets, TLC

VARIABLES
    text,        \* the input text (script_content / the text argument)
    max_length,  \* MAX_CHUNK_SIZE, the limit given to the chunker
    pc,          \* position in the running call
    fn,          \* SpecSplit: the chunker that was called
    chunks,      \* the list returned by the chunker
    entry,       \* SpecJob: "tool" (OpenAITTSTool._run) or "script"
    i,           \* loop index (enumerate(chunks), temp_files)
    calls,       \* log of the openai.audio.speech.create calls, in order
    inflight,    \* synthesis calls that have not returned yet
    temp_files,  \* the list temp_files (chunk numbers of the files)
    fs_temp,     \* per-chunk temporary files that exist on disk
    combined,    \* combined_audio: chunk numbers of the audio it holds
    output,      \* the file at output_file
    result,      \* what the entry point returned ("raised": it raised)
    failed,      \* chunk numbers whose synthesis call raised
    exit,        \* the exit path taken
    language,    \* the language argument
    voice_arg,   \* the voice argument as the caller gave it
    voice,       \* the local variable voice
    file,        \* archive_files: the file argument
    knowledge_exists,  \* settings.KNOWLEDGE_DIR exists
    knowledge,   \* the files below settings.KNOWLEDGE_DIR
    archive,     \* the files below settings.ARCHIVE_DIR
    type_dirs,   \* the file types t whose directory knowledge/t exists
    document_state,  \* DocumentState: file type -> list of paths
    steps,       \* SonicFlow: method name -> "idle", "running", "done", "raised"
    proc,        \* process_files of each index step: file_list, position
    indexed,     \* per index step: the indexer.process_file calls and outcomes
    archived,    \* per index step: the files archive_files was called with
    crew_ok      \* IndexerCrew() can be built (its configuration loads)

jobvars == <<entry, i, calls, inflight, temp_files, fs_temp, combined,
             output, result, failed, exit, language, voice_arg, voice>>

archvars == <<file, knowledge_exists, knowledge, archive>>

flowvars == <<type_dirs, document_state, steps, proc, indexed, archived,
              crew_ok>>

vars == <<text, max_length, pc, fn, chunks, entry, i, calls, inflight,
          temp_files, fs_temp, combined, output, result, failed, exit,
          language, voice_arg, voice, file, knowledge_exists, knowledge,
          archive, type_dirs, document_state, steps, proc, indexed, archived,
          crew_ok>>

\* ------------------------------------------------------------------ bounds
MaxTextLen == 5
MaxLimit == 3
MaxJobTextLen == 7
MaxPackTextLen == 10
MaxPackLimit == 6
MaxVoiceTextLen == 4

\* -------------------------------------------------------------- characters
SP == " "
NL == "\n"
DOT == "."
BANG == "!"
QUERY == "?"
PIPE == "|"

Alphabet == {"a", SP, DOT, BANG, QUERY, NL, PIPE}

\* the texts of the jobs: paragraphs of letters
JobAlphabet == {"a", NL}

\* str.isspace() over the characters of the model
Whitespace == {SP, NL}

StrOfLen(A, n) == [1..n -> A]
StrUpTo(A, n) == UNION {StrOfLen(A, k) : k \in 0..n}

\* ------------------------------------------------------- Python str helpers
\* sep occurs in s at position k
OccursAt(s, sep, k) ==
    /\ k + Len(sep) - 1 <= Len(s)
    /\ SubSeq(s, k, k + Len(sep) - 1) = sep

RECURSIVE SplitFrom(_, _, _, _)
SplitFrom(s, sep, k, cur) ==
    IF k > Len(s) THEN <<cur>>
    ELSE IF OccursAt(s, sep, k)
         THEN <<cur>> \o SplitFrom(s, sep, k + Len(sep), <<>>)
         ELSE SplitFrom(s, sep, k + 1, Append(cur, s[k]))

\* s.split(sep): left to right, non-overlapping, empty parts kept
str_split(s, sep) == SplitFrom(s, sep, 1, <<>>)

RECURSIVE ReplaceFrom(_, _, _, _)
ReplaceFrom(s, old, new, k) ==
    IF k > Len(s) THEN <<>>
    ELSE IF OccursAt(s, old, k)
         THEN new \o ReplaceFrom(s, old, new, k + Len(old))
         ELSE <<s[k]>> \o ReplaceFrom(s, old, new, k + 1)

\* s.replace(old, new): left to right, non-overlapping
str_replace(s, old, new) == ReplaceFrom(s, old, new, 1)

\* only "not text": the strip() of the test left out
IsEmptyText(s) == s = <<>>

\* s.strip() is empty (the "not text.strip()" tests)
IsBlank(s) == \A k \in 1..Len(s) : s[k] \in Whitespace

RECURSIVE Flatten(_)
Flatten(ss) == IF ss = <<>> THEN <<>> ELSE Head(ss) \o Flatten(Tail(ss))

RECURSIVE Keep(_, _)
Keep(s, A) ==
    IF s = <<>> THEN <<>>
    ELSE IF Head(s) \in A THEN <<Head(s)>> \o Keep(Tail(s), A)
         ELSE Keep(Tail(s), A)

\* the non-whitespace characters of s, in order
NonWhitespace(s) == Keep(s, Alphabet \ Whitespace)

\* ------------------------------------------ bin/convert_script_to_audio.py
\* the loop state of split_text: the list chunks and the buffer current_chunk
\* lines 66-73: for word in words
split_text_word(st, word, max_len) ==
    IF Len(st.current_chunk) + Len(word) + 1 > max_len
    THEN [chunks |-> Append(st.chunks, st.current_chunk),
          current_chunk |-> word \o <<SP>>]
    ELSE [st EXCEPT !.current_chunk = @ \o word \o <<SP>>]

RECURSIVE split_text_words(_, _, _)
split_text_words(st, words, max_len) ==
    IF words = <<>> THEN st
    ELSE split_text_words(split_text_word(st, Head(words), max_len),
                          Tail(words), max_len)

\* lines 55-77: for sentence in sentences
split_text_sentence(st, sentence, max_len) ==
    IF Len(st.current_chunk) + Len(sentence) + 1 > max_len
    THEN IF st.current_chunk # <<>>
         THEN [chunks |-> Append(st.chunks, st.current_chunk),
               current_chunk |-> sentence]
         ELSE IF Len(sentence) > max_len
              THEN split_text_words(st, str_split(sentence, <<SP>>), max_len)
              ELSE [st EXCEPT !.chunks = Append(@, sentence)]
    ELSE [st EXCEPT !.current_chunk = @ \o sentence \o <<SP>>]

RECURSIVE split_text_sentences(_, _, _)
split_text_sentences(st, sentences, max_len) ==
    IF sentences = <<>> THEN st
    ELSE split_text_sentences(split_text_sentence(st, Head(sentences), max_len),
                              Tail(sentences), max_len)

\* lines 48-53: the sentences of a paragraph
sentences_of(paragraph) ==
    str_split(str_replace(str_replace(str_replace(paragraph,
                  <<DOT, SP>>, <<DOT, PIPE>>),
                  <<BANG, SP>>, <<BANG, PIPE>>),
                  <<QUERY, SP>>, <<QUERY, PIPE>>),
              <<PIPE>>)

\* lines 38-84: for paragraph in paragraphs
split_text_paragraph(st, paragraph, max_len) ==
    IF Len(st.current_chunk) + Len(paragraph) + 2 > max_len
    THEN LET flushed == IF st.current_chunk # <<>>
                        THEN [chunks |-> Append(st.chunks, st.current_chunk),
                              current_chunk |-> <<>>]
                        ELSE st
         IN  IF Len(paragraph) > max_len
             THEN split_text_sentences(flushed, sentences_of(paragraph), max_len)
             ELSE [flushed EXCEPT !.current_chunk = paragraph]
    ELSE IF st.current_chunk # <<>>
         THEN [st EXCEPT !.current_chunk = @ \o <<NL, NL>> \o paragraph]
         ELSE [st EXCEPT !.current_chunk = paragraph]

RECURSIVE split_text_paragraphs(_, _, _)
split_text_paragraphs(st, paragraphs, max_len) ==
    IF paragraphs = <<>> THEN st
    ELSE split_text_paragraphs(split_text_paragraph(st, Head(paragraphs), max_len),
                               Tail(paragraphs), max_len)

\* lines 32-90: the packing loop and the final flush
split_text_pack(t, max_len) ==
    LET st == split_text_paragraphs([chunks |-> <<>>, current_chunk |-> <<>>],
                                    str_split(t, <<NL, NL>>), max_len)
    IN  IF st.current_chunk # <<>>
        THEN Append(st.chunks, st.current_chunk)
        ELSE st.chunks

\* split_text with the early return of lines 29-30 left out
split_text_no_early_return(t, max_len) == split_text_pack(t, max_len)

\* lines 17-90
split_text(t, max_len) ==
    IF Len(t) <= max_len THEN <<t>> ELSE split_text_pack(t, max_len)

\* -------------------------------- src/mind_sonic/tools/openai_tts_tool.py
\* lines 227-240: for sentence in sentences
chunk_text_sentence(st, sentence, max_chars) ==
    IF Len(st.current_chunk) + Len(sentence) + 2 <= max_chars
    THEN IF st.current_chunk # <<>>
         THEN [st EXCEPT !.current_chunk = @ \o <<DOT, SP>> \o sentence]
         ELSE [st EXCEPT !.current_chunk = sentence]
    ELSE LET flushed == IF st.current_chunk # <<>>
                        THEN Append(st.chunks, st.current_chunk \o <<DOT>>)
                        ELSE st.chunks
         IN  IF Len(sentence) > max_chars
             THEN [chunks |-> Append(flushed, sentence \o <<DOT>>),
                   current_chunk |-> <<>>]
             ELSE [chunks |-> flushed, current_chunk |-> sentence]

RECURSIVE chunk_text_sentences(_, _, _)
chunk_text_sentences(st, sentences, max_chars) ==
    IF sentences = <<>> THEN st
    ELSE chunk_text_sentences(chunk_text_sentence(st, Head(sentences), max_chars),
                              Tail(sentences), max_chars)

\* chunk_text_paragraph with the "+ 2" of line 216 left out: the separator is
\* not counted
chunk_text_paragraph_no_sep(st, paragraph, max_chars) ==
    IF Len(st.current_chunk) + Len(paragraph) <= max_chars
    THEN IF st.current_chunk # <<>>
         THEN [st EXCEPT !.current_chunk = @ \o <<NL, NL>> \o paragraph]
         ELSE [st EXCEPT !.current_chunk = paragraph]
    ELSE [chunks |-> IF st.current_chunk # <<>>
                     THEN Append(st.chunks, st.current_chunk)
                     ELSE st.chunks,
          current_chunk |-> paragraph]

\* lines 215-245: for paragraph in paragraphs
chunk_text_paragraph(st, paragraph, max_chars) ==
    IF Len(st.current_chunk) + Len(paragraph) + 2 <= max_chars
    THEN IF st.current_chunk # <<>>
         THEN [st EXCEPT !.current_chunk = @ \o <<NL, NL>> \o paragraph]
         ELSE [st EXCEPT !.current_chunk = paragraph]
    ELSE LET flushed == IF st.current_chunk # <<>>
                        THEN Append(st.chunks, st.current_chunk)
                        ELSE st.chunks
         IN  IF Len(paragraph) > max_chars
             THEN LET s == chunk_text_sentences(
                               [chunks |-> flushed, current_chunk |-> <<>>],
                               str_split(paragraph, <<DOT, SP>>), max_chars)
                  IN  [chunks |-> IF s.current_chunk # <<>>
                                  THEN Append(s.chunks, s.current_chunk \o <<DOT>>)
                                  ELSE s.chunks,
                       current_chunk |-> <<>>]
             ELSE [chunks |-> flushed, current_chunk |-> paragraph]

RECURSIVE chunk_text_paragraphs(_, _, _)
chunk_text_paragraphs(st, paragraphs, max_chars) ==
    IF paragraphs = <<>> THEN st
    ELSE chunk_text_paragraphs(chunk_text_paragraph(st, Head(paragraphs), max_chars),
                               Tail(paragraphs), max_chars)

\* lines 211-248: the packing loop and the final flush
chunk_text_pack(t, max_chars) ==
    LET st == chunk_text_paragraphs([chunks |-> <<>>, current_chunk |-> <<>>],
                                    str_split(t, <<NL, NL>>), max_chars)
    IN  IF st.current_chunk # <<>>
        THEN Append(st.chunks, st.current_chunk)
        ELSE st.chunks

\* lines 190-251: OpenAITTSTool._chunk_text
chunk_text(t, max_chars) ==
    IF Len(t) <= max_chars THEN <<t>> ELSE chunk_text_pack(t, max_chars)

\* ------------------------------------------------------- the file system
\* Python's None
None == "None"

NoFile == [state |-> "absent", encoding |-> "none", audio |-> <<>>]
StaleFile == [state |-> "stale", encoding |-> "none", audio |-> <<>>]

\* open(output_file, "wb"); file.write(response.content)
RawFile(audio) == [state |-> "written", encoding |-> "raw", audio |-> audio]

\* combined_audio.export(output_file, format=...)
ExportedFile(audio) == [state |-> "written", encoding |-> "export", audio |-> audio]

Range(s) == {s[k] : k \in 1..Len(s)}

\* no job is running
JobIdle ==
    /\ entry = "none"
    /\ i = 0
    /\ calls = <<>>
    /\ inflight = {}
    /\ temp_files = <<>>
    /\ fs_temp = {}
    /\ combined = <<>>
    /\ output = NoFile
    /\ result = "none"
    /\ failed = {}
    /\ exit = "none"
    /\ language = None
    /\ voice_arg = None
    /\ voice = None

\* no file is being archived
ArchiveIdle ==
    /\ file = <<>>
    /\ knowledge_exists = TRUE
    /\ knowledge = {}
    /\ archive = {}

\* no flow is running
FlowIdle ==
    /\ type_dirs = {}
    /\ document_state = <<>>
    /\ steps = <<>>
    /\ proc = <<>>
    /\ indexed = <<>>
    /\ archived = <<>>
    /\ crew_ok = TRUE

\* ------------------------------------------- the chunkers as pure functions
InitSplit ==
    /\ text \in StrUpTo(Alphabet, MaxTextLen)
    /\ max_length \in 1..MaxLimit
    /\ pc = "input"
    /\ fn = "none"
    /\ chunks = <<>>
    /\ JobIdle
    /\ ArchiveIdle
    /\ FlowIdle

\* a call of split_text(text, max_length)
CallSplitText ==
    /\ pc = "input"
    /\ chunks' = split_text(text, max_length)
    /\ fn' = "split_text"
    /\ pc' = "returned"
    /\ UNCHANGED <<text, max_length>>
    /\ UNCHANGED jobvars
    /\ UNCHANGED archvars
    /\ UNCHANGED flowvars

\* a call of OpenAITTSTool._chunk_text(text, max_length)
CallChunkText ==
    /\ pc = "input"
    /\ chunks' = chunk_text(text, max_length)
    /\ fn' = "_chunk_text"
    /\ pc' = "returned"
    /\ UNCHANGED <<text, max_length>>
    /\ UNCHANGED jobvars
    /\ UNCHANGED archvars
    /\ UNCHANGED flowvars

NextSplit == CallSplitText \/ CallChunkText

SpecSplit == InitSplit /\ [][NextSplit]_vars

\* the chunkers on texts made of paragraphs of letters, long enough for
\* several paragraphs to share a segment
InitPack ==
    /\ text \in StrUpTo(JobAlphabet, MaxPackTextLen)
    /\ max_length \in 1..MaxPackLimit
    /\ pc = "input"
    /\ fn = "none"
    /\ chunks = <<>>
    /\ JobIdle
    /\ ArchiveIdle
    /\ FlowIdle

SpecPack == InitPack /\ [][NextSplit]_vars

\* ------------------------------------------------ the outcomes of the world
\* openai.audio.speech.create: audio, a response without content, an exception
SynthOutcomes == {"ok", "empty", "fail"}
\* os.makedirs, open/write, AudioSegment.from_file, export, import pydub
IOOutcomes == {"ok", "fail"}

\* one openai.audio.speech.create(input=..., voice=...) call
Call(site, index, input, v) ==
    [site |-> site, index |-> index, input |-> input, voice |-> v]

\* LANGUAGE_VOICE_MAP of OpenAITTSTool (openai_tts_tool.py lines 73-92)
TOOL_LANGUAGE_VOICE_MAP ==
    ("english" :> "alloy") @@ ("en" :> "alloy") @@
    ("french" :> "nova") @@ ("fr" :> "nova") @@
    ("german" :> "onyx") @@ ("de" :> "onyx") @@
    ("spanish" :> "shimmer") @@ ("es" :> "shimmer") @@
    ("italian" :> "echo") @@ ("it" :> "echo") @@
    ("japanese" :> "nova") @@ ("ja" :> "nova") @@
    ("chinese" :> "shimmer") @@ ("zh" :> "shimmer") @@
    ("portuguese" :> "alloy") @@ ("pt" :> "alloy") @@
    ("dutch" :> "fable") @@ ("nl" :> "fable")

\* LANGUAGE_VOICE_MAP of convert_script_to_audio.py (lines 94-109)
SCRIPT_LANGUAGE_VOICE_MAP ==
    ("english" :> "alloy") @@ ("en" :> "alloy") @@
    ("french" :> "nova") @@ ("fr" :> "nova") @@
    ("spanish" :> "shimmer") @@ ("es" :> "shimmer") @@
    ("german" :> "onyx") @@ ("de" :> "onyx") @@
    ("italian" :> "echo") @@ ("it" :> "echo") @@
    ("japanese" :> "nova") @@ ("ja" :> "nova") @@
    ("portuguese" :> "alloy") @@ ("pt" :> "alloy")

\* the language arguments of the model
Languages == {"english", "french", "FRENCH", "Dutch", "klingon"}

\* str.lower() on the language arguments of the model
str_lower(l) ==
    CASE l = "FRENCH" -> "french"
      [] l = "Dutch" -> "dutch"
      [] OTHER -> l

\* dict.get(key, default)
dict_get(map, key, default) ==
    IF key \in DOMAIN map THEN map[key] ELSE default

\* _select_voice_for_language without the language.lower() of line 187
select_voice_case_sensitive(l) ==
    dict_get(TOOL_LANGUAGE_VOICE_MAP, l, "alloy")

\* openai_tts_tool.py lines 185-188: OpenAITTSTool._select_voice_for_language
select_voice_for_language(l) ==
    dict_get(TOOL_LANGUAGE_VOICE_MAP, str_lower(l), "alloy")

\* convert_script_to_audio.py lines 112-123
determine_voice_for_language(l) ==
    dict_get(SCRIPT_LANGUAGE_VOICE_MAP, str_lower(l), "alloy")

\* "not voice": None and the empty string
NotVoice(v) == v = None \/ v = ""

\* _run lets the exception go to its caller
RunReraise == "raised"

\* openai_tts_tool.py lines 180-183: except Exception in _run
RunExcept == "Error generating audio"

\* the tool is running: called directly or by PodcastAudioGeneratorTool._run
InTool == entry \in {"tool", "podcast"}

\* where _run returns to
ToolReturn == IF entry = "podcast" THEN "podcast_verify" ELSE "done"

\* AppendAudio with the operands swapped: the new audio in front of the stream
PrependAudio(audio, k) == <<k>> \o audio

\* openai_tts_tool.py line 328 / convert_script_to_audio.py lines 211-214:
\* combined_audio += audio_chunk
AppendAudio(audio, k) == Append(audio, k)

\* RemoveTempFiles with the os.remove calls left out
KeepTempFiles(fs, files) == fs

\* openai_tts_tool.py lines 356-362 / convert_script_to_audio.py lines 222-226:
\* for temp_file in temp_files: os.remove(temp_file)
RemoveTempFiles(fs, files) == fs \ Range(files)

\* the default arguments: _run(language="english", voice=None),
\* convert_script_to_audio(voice="alloy", language=None)
DefaultArgs ==
    /\ language = IF entry = "script" THEN None ELSE "english"
    /\ voice_arg = IF entry = "script" THEN "alloy" ELSE None

\* the state at the call of the entry point
JobStart ==
    /\ voice = voice_arg
    /\ pc = "start"
    /\ fn = "none"
    /\ chunks = <<>>
    /\ i = 0
    /\ calls = <<>>
    /\ inflight = {}
    /\ temp_files = <<>>
    /\ fs_temp = {}
    /\ combined = <<>>
    /\ result = "none"
    /\ failed = {}
    /\ exit = "none"
    /\ ArchiveIdle
    /\ FlowIdle

InitJob ==
    /\ text \in StrUpTo(JobAlphabet, MaxJobTextLen)
    /\ max_length \in 1..MaxLimit
    /\ entry \in {"tool", "script", "podcast"}
    /\ output \in {NoFile, StaleFile}
    /\ DefaultArgs
    /\ JobStart

\* the voice of the job with texts of a few characters: every language and
\* voice argument
InitVoice ==
    /\ text \in StrUpTo(JobAlphabet, MaxVoiceTextLen)
    /\ max_length \in 1..MaxLimit
    /\ entry \in {"tool", "script", "podcast"}
    /\ output = NoFile
    /\ language \in IF entry = "script" THEN Languages \cup {None}
                    ELSE Languages
    /\ voice_arg \in CASE entry = "tool" -> {None, "", "echo"}
                      [] entry = "podcast" -> {None}
                      [] OTHER -> {"alloy", "echo"}
    /\ JobStart

\* ---------------------------------------------------- OpenAITTSTool._run
\* lines 120-149: validation, output directory, dispatch on len(text)
Run ==
    /\ \/ entry = "tool" /\ pc = "start"
       \/ entry = "podcast" /\ pc = "tts_run"
    /\ IF IsBlank(text)
       THEN /\ result' = "Error: Empty text provided"
            /\ exit' = "empty_input"
            /\ pc' = ToolReturn
            /\ UNCHANGED voice
       ELSE /\ voice' = IF NotVoice(voice)
                        THEN select_voice_for_language(language)
                        ELSE voice
            /\ \E makedirs \in IOOutcomes :
                 IF makedirs = "fail"
                 THEN /\ result' = RunExcept
                      /\ exit' = "io_failure"
                      /\ pc' = ToolReturn
                 ELSE /\ pc' = IF Len(text) > max_length
                               THEN "process_chunks" ELSE "run_synth"
                      /\ UNCHANGED <<result, exit>>
    /\ UNCHANGED <<text, max_length, language, voice_arg, archvars, flowvars, fn, chunks, entry, i, calls, inflight,
                   temp_files, fs_temp, combined, output, failed>>

\* lines 152-158: the call is made
RunSynthCall ==
    /\ InTool /\ pc = "run_synth"
    /\ calls' = Append(calls, Call("_run", 1, text, voice))
    /\ inflight' = inflight \cup {1}
    /\ pc' = "run_await"
    /\ UNCHANGED <<text, max_length, language, voice_arg, voice, archvars, flowvars, fn, chunks, entry, i, temp_files, fs_temp,
                   combined, output, result, failed, exit>>

\* lines 152-183: the call returns, the response is written to output_file
RunSynthReturn ==
    /\ InTool /\ pc = "run_await"
    /\ inflight' = inflight \ {1}
    /\ pc' = ToolReturn
    /\ \E synth \in SynthOutcomes, write \in IOOutcomes :
         IF synth = "fail"
         THEN /\ failed' = failed \cup {1}
              /\ result' = RunExcept
              /\ exit' = "synthesis_failure"
              /\ UNCHANGED output
         ELSE IF write = "fail"
         THEN /\ result' = RunExcept
              /\ exit' = "io_failure"
              /\ UNCHANGED <<output, failed>>
         ELSE /\ output' = RawFile(IF synth = "ok" THEN <<1>> ELSE <<>>)
              /\ result' = "Audio saved to"
              /\ exit' = "success"
              /\ UNCHANGED failed
    /\ UNCHANGED <<text, max_length, language, voice_arg, voice, archvars, flowvars, fn, chunks, entry, i, calls, temp_files,
                   fs_temp, combined>>

\* ------------------------------------------ OpenAITTSTool._process_chunks
\* lines 277-292: import pydub, chunk the text, empty audio, temp_files = [].
\* When the import raises, the finally clause reads the unbound temp_files
\* and the UnboundLocalError is caught by _run (line 180).
ProcessChunksBegin ==
    /\ InTool /\ pc = "process_chunks"
    /\ \E import \in IOOutcomes :
         IF import = "fail"
         THEN /\ result' = RunExcept
              /\ exit' = "import_failure"
              /\ pc' = ToolReturn
              /\ UNCHANGED <<chunks, i, voice>>
         ELSE /\ chunks' = chunk_text(text, max_length)
              /\ voice' = IF voice = None
                          THEN select_voice_for_language(language)
                          ELSE voice
              /\ i' = 1
              /\ pc' = IF chunks' = <<>> THEN "export" ELSE "chunk"
              /\ UNCHANGED <<result, exit>>
    /\ combined' = <<>>
    /\ temp_files' = <<>>
    /\ UNCHANGED <<text, max_length, language, voice_arg, archvars, flowvars, fn, entry, calls, inflight, fs_temp,
                   output, failed>>

\* lines 294-311: the temp file name is registered, the call is made
ChunkSynthCall ==
    /\ InTool /\ pc = "chunk"
    /\ temp_files' = Append(temp_files, i)
    /\ calls' = Append(calls, Call("_process_chunks", i, chunks[i], voice))
    /\ inflight' = inflight \cup {i}
    /\ pc' = "chunk_await"
    /\ UNCHANGED <<text, max_length, language, voice_arg, voice, archvars, flowvars, fn, chunks, entry, i, fs_temp, combined,
                   output, result, failed, exit>>

\* lines 305-334: the call returns; the chunk is saved, decoded and appended;
\* every exception is logged and the loop goes on
ChunkSynthReturn ==
    /\ InTool /\ pc = "chunk_await"
    /\ inflight' = inflight \ {i}
    /\ \E synth \in SynthOutcomes, write \in IOOutcomes, decode \in IOOutcomes :
         IF synth = "fail"
         THEN /\ failed' = failed \cup {i}
              /\ UNCHANGED <<fs_temp, combined>>
         ELSE /\ fs_temp' = fs_temp \cup {i}
              /\ combined' = IF synth = "ok" /\ write = "ok" /\ decode = "ok"
                             THEN AppendAudio(combined, i)
                             ELSE combined
              /\ UNCHANGED failed
    /\ i' = i + 1
    /\ pc' = IF i + 1 > Len(chunks) THEN "export" ELSE "chunk"
    /\ UNCHANGED <<text, max_length, language, voice_arg, voice, archvars, flowvars, fn, chunks, entry, calls, temp_files,
                   output, result, exit>>

\* lines 336-352: export of the combined audio, the return value
ProcessExport ==
    /\ InTool /\ pc = "export"
    /\ \E export \in IOOutcomes :
         IF export = "ok"
         THEN /\ output' = ExportedFile(combined)
              /\ result' = "Audio saved to"
              /\ exit' = "success"
         ELSE /\ result' = "Error in chunk processing"
              /\ exit' = "export_failure"
              /\ UNCHANGED output
    /\ pc' = "finally"
    /\ UNCHANGED <<text, max_length, language, voice_arg, voice, archvars, flowvars, fn, chunks, entry, i, calls, inflight,
                   temp_files, fs_temp, combined, failed>>

\* lines 354-362: the finally clause
ProcessFinally ==
    /\ InTool /\ pc = "finally"
    /\ fs_temp' = RemoveTempFiles(fs_temp, temp_files)
    /\ pc' = ToolReturn
    /\ UNCHANGED <<text, max_length, language, voice_arg, voice, archvars, flowvars, fn, chunks, entry, i, calls, inflight,
                   temp_files, combined, output, result, failed, exit>>

\* ------------------------------------------------ convert_script_to_audio
\* lines 139-191: read the script, split it, client, output directory
Convert ==
    /\ entry = "script" /\ pc = "start"
    /\ IF IsBlank(text)
       THEN /\ result' = "False"
            /\ exit' = "empty_input"
            /\ pc' = "done"
            /\ UNCHANGED <<chunks, voice>>
       ELSE /\ chunks' = split_text(text, max_length)
            /\ \E client \in IOOutcomes, makedirs \in IOOutcomes :
                 IF client = "fail"
                 THEN /\ result' = "False"
                      /\ exit' = "client_failure"
                      /\ pc' = "done"
                      /\ UNCHANGED voice
                 ELSE /\ voice' = IF language # None /\ language # ""
                                  THEN determine_voice_for_language(language)
                                  ELSE voice
                      /\ IF makedirs = "fail"
                         THEN /\ result' = "raised"
                              /\ exit' = "io_failure"
                              /\ pc' = "done"
                         ELSE /\ pc' = IF Len(chunks') = 1 THEN "single_synth"
                                       ELSE IF chunks' = <<>> THEN "combine"
                                       ELSE "multi_synth"
                              /\ UNCHANGED <<result, exit>>
    /\ i' = 1
    /\ UNCHANGED <<text, max_length, language, voice_arg, archvars, flowvars, fn, entry, calls, inflight, temp_files,
                   fs_temp, combined, output, failed>>

\* line 182: the call is made
SingleSynthCall ==
    /\ entry = "script" /\ pc = "single_synth"
    /\ calls' = Append(calls, Call("convert_single", 1, chunks[1], voice))
    /\ inflight' = inflight \cup {1}
    /\ pc' = "single_await"
    /\ UNCHANGED <<text, max_length, language, voice_arg, voice, archvars, flowvars, fn, chunks, entry, i, temp_files, fs_temp,
                   combined, output, result, failed, exit>>

\* lines 182-187, 228-231: the call returns, the response is written
SingleSynthReturn ==
    /\ entry = "script" /\ pc = "single_await"
    /\ inflight' = inflight \ {1}
    /\ pc' = "done"
    /\ \E synth \in SynthOutcomes, write \in IOOutcomes :
         IF synth = "fail"
         THEN /\ failed' = failed \cup {1}
              /\ result' = "raised"
              /\ exit' = "synthesis_failure"
              /\ UNCHANGED output
         ELSE IF write = "fail"
         THEN /\ result' = "raised"
              /\ exit' = "io_failure"
              /\ UNCHANGED <<output, failed>>
         ELSE /\ output' = RawFile(IF synth = "ok" THEN <<1>> ELSE <<>>)
              /\ result' = "True"
              /\ exit' = "success"
              /\ UNCHANGED failed
    /\ UNCHANGED <<text, max_length, language, voice_arg, voice, archvars, flowvars, fn, chunks, entry, i, calls, temp_files,
                   fs_temp, combined>>

\* lines 194-200: the call for chunk i is made
MultiSynthCall ==
    /\ entry = "script" /\ pc = "multi_synth"
    /\ calls' = Append(calls, Call("convert_multi", i, chunks[i], voice))
    /\ inflight' = inflight \cup {i}
    /\ pc' = "multi_await"
    /\ UNCHANGED <<text, max_length, language, voice_arg, voice, archvars, flowvars, fn, chunks, entry, i, temp_files, fs_temp,
                   combined, output, result, failed, exit>>

\* MultiSynthReturn with the call wrapped in a try of its own, as in
\* _process_chunks: a failing call is skipped and the loop goes on
MultiSynthReturnSwallow ==
    /\ entry = "script" /\ pc = "multi_await"
    /\ inflight' = inflight \ {i}
    /\ \E synth \in SynthOutcomes :
         IF synth = "fail"
         THEN /\ failed' = failed \cup {i}
              /\ UNCHANGED <<fs_temp, temp_files>>
         ELSE /\ fs_temp' = fs_temp \cup {i}
              /\ temp_files' = Append(temp_files, i)
              /\ UNCHANGED failed
    /\ i' = IF i + 1 > Len(chunks) THEN 1 ELSE i + 1
    /\ pc' = IF i + 1 > Len(chunks) THEN "combine" ELSE "multi_synth"
    /\ UNCHANGED <<text, max_length, language, voice_arg, voice, archvars, flowvars, fn, chunks, entry, calls, combined, output,
                   result, exit>>

\* lines 198-207: the call returns; the temporary file is created, written,
\* and only then appended to temp_files; an exception leaves the loop
MultiSynthReturn ==
    /\ entry = "script" /\ pc = "multi_await"
    /\ inflight' = inflight \ {i}
    /\ \E synth \in SynthOutcomes, write \in IOOutcomes :
         IF synth = "fail"
         THEN /\ failed' = failed \cup {i}
              /\ result' = "raised"
              /\ exit' = "synthesis_failure"
              /\ pc' = "script_finally"
              /\ UNCHANGED <<fs_temp, temp_files, i>>
         ELSE IF write = "fail"
         THEN /\ fs_temp' = fs_temp \cup {i}
              /\ result' = "raised"
              /\ exit' = "temp_write_failure"
              /\ pc' = "script_finally"
              /\ UNCHANGED <<temp_files, failed, i>>
         ELSE /\ fs_temp' = fs_temp \cup {i}
              /\ temp_files' = Append(temp_files, i)
              /\ i' = IF i + 1 > Len(chunks) THEN 1 ELSE i + 1
              /\ pc' = IF i + 1 > Len(chunks) THEN "combine" ELSE "multi_synth"
              /\ UNCHANGED <<result, failed, exit>>
    /\ UNCHANGED <<text, max_length, language, voice_arg, voice, archvars, flowvars, fn, chunks, entry, calls, combined, output>>

\* lines 211-214: the temporary files are decoded and appended in list order
CombineStep ==
    /\ entry = "script" /\ pc = "combine"
    /\ IF temp_files = <<>>
       THEN /\ result' = "raised"
            /\ exit' = "index_error"
            /\ pc' = "script_finally"
            /\ UNCHANGED <<combined, i>>
       ELSE \E decode \in IOOutcomes :
              IF decode = "fail"
              THEN /\ result' = "raised"
                   /\ exit' = "decode_failure"
                   /\ pc' = "script_finally"
                   /\ UNCHANGED <<combined, i>>
              ELSE /\ combined' = AppendAudio(combined, temp_files[i])
                   /\ i' = i + 1
                   /\ pc' = IF i + 1 > Len(temp_files)
                            THEN "script_export" ELSE "combine"
                   /\ UNCHANGED <<result, exit>>
    /\ UNCHANGED <<text, max_length, language, voice_arg, voice, archvars, flowvars, fn, chunks, entry, calls, inflight,
                   temp_files, fs_temp, output, failed>>

\* line 218: export of the combined audio
ScriptExport ==
    /\ entry = "script" /\ pc = "script_export"
    /\ \E export \in IOOutcomes :
         IF export = "ok"
         THEN /\ output' = ExportedFile(combined)
              /\ result' = "True"
              /\ exit' = "success"
         ELSE /\ result' = "raised"
              /\ exit' = "export_failure"
              /\ UNCHANGED output
    /\ pc' = "script_finally"
    /\ UNCHANGED <<text, max_length, language, voice_arg, voice, archvars, flowvars, fn, chunks, entry, i, calls, inflight,
                   temp_files, fs_temp, combined, failed>>

\* lines 220-231: the finally clause, then the return or the re-raise
ScriptFinally ==
    /\ entry = "script" /\ pc = "script_finally"
    /\ fs_temp' = RemoveTempFiles(fs_temp, temp_files)
    /\ pc' = "done"
    /\ UNCHANGED <<text, max_length, language, voice_arg, voice, archvars, flowvars, fn, chunks, entry, i, calls, inflight,
                   temp_files, combined, output, result, failed, exit>>

\* --------------------------------- PodcastAudioGeneratorTool._run
\* podcast_audio_generator_tool.py lines 59-88: the script file is read and
\* checked, the output directory is made, the text is handed to
\* OpenAITTSTool._run without a voice
PodcastRun ==
    /\ entry = "podcast" /\ pc = "start"
    /\ \E script \in {"found", "missing"}, io \in IOOutcomes :
         IF script = "missing"
         THEN /\ result' = "Script file not found"
              /\ exit' = "script_not_found"
              /\ pc' = "done"
         ELSE IF io = "fail"
         THEN /\ result' = "Error generating podcast audio"
              /\ exit' = "io_failure"
              /\ pc' = "done"
         ELSE IF IsBlank(text)
         THEN /\ result' = "Script file is empty"
              /\ exit' = "empty_input"
              /\ pc' = "done"
         ELSE /\ pc' = "tts_run"
              /\ UNCHANGED <<result, exit>>
    /\ UNCHANGED <<text, max_length, language, voice_arg, voice, archvars, flowvars, fn, chunks, entry, i, calls, inflight,
                   temp_files, fs_temp, combined, output, failed>>

\* lines 90-98: _run has returned; the result is decided by the existence of
\* the output file alone
PodcastVerify ==
    /\ entry = "podcast" /\ pc = "podcast_verify"
    /\ result' = IF output.state # "absent"
                 THEN "Successfully generated audio file"
                 ELSE "Failed to generate audio file"
    /\ pc' = "done"
    /\ UNCHANGED <<text, max_length, language, voice_arg, voice, archvars, flowvars, fn, chunks, entry, i, calls, inflight,
                   temp_files, fs_temp, combined, output, failed, exit>>

NextJob ==
    \/ PodcastRun
    \/ PodcastVerify
    \/ Run
    \/ RunSynthCall
    \/ RunSynthReturn
    \/ ProcessChunksBegin
    \/ ChunkSynthCall
    \/ ChunkSynthReturn
    \/ ProcessExport
    \/ ProcessFinally
    \/ Convert
    \/ SingleSynthCall
    \/ SingleSynthReturn
    \/ MultiSynthCall
    \/ MultiSynthReturn
    \/ CombineStep
    \/ ScriptExport
    \/ ScriptFinally

SpecJob == InitJob /\ [][NextJob]_vars

SpecVoice == InitVoice /\ [][NextJob]_vars

\* ================================================================== claims
Returned(f) == pc = "returned" /\ fn = f

\* s is one word: not empty and without a space
IsSingleWord(s) == s # <<>> /\ \A k \in 1..Len(s) : s[k] # SP

\* w stands in t between whitespace (or the ends of t), character for character
IsWordOf(w, t) ==
    \E k \in 1..Len(t) :
        /\ OccursAt(t, w, k)
        /\ (k = 1 \/ t[k - 1] \in Whitespace)
        /\ (k + Len(w) > Len(t) \/ t[k + Len(w)] \in Whitespace)

ErrorResults == {"Error: Empty text provided", "Error generating audio",
                 "Error in chunk processing"}

\* C1: every segment returned by split_text(text, max_length) has length
\* <= max_length, except a segment that is exactly one single word (no
\* space in it) longer than max_length.
C1_SegmentsWithinLimit ==
    Returned("split_text") =>
        \A k \in 1..Len(chunks) :
            Len(chunks[k]) <= max_length \/ IsSingleWord(chunks[k])

\* C2: every chunk returned by _chunk_text(text, max_chars) has length
\* <= max_chars, unless it is a single word of the text, unmodified, that
\* alone exceeds max_chars.
C2_ChunksWithinLimit ==
    Returned("_chunk_text") =>
        \A k \in 1..Len(chunks) :
            \/ Len(chunks[k]) <= max_length
            \/ IsSingleWord(chunks[k]) /\ IsWordOf(chunks[k], text)

\* C3: in _process_chunks, once the synthesis call for chunk k has failed,
\* no synthesis call is made for a chunk after k.
C3_FailureAbortsRemaining ==
    entry = "tool" =>
        \A k \in failed : \A c \in 1..Len(calls) :
            calls[c].site = "_process_chunks" => calls[c].index <= k

\* C4: when _run processes a text of several chunks and the synthesis of at
\* least one chunk fails, the result is an error (never "Audio saved to")
\* and no output file is written at output_file.
C4_FailureReportedNoOutput ==
    (entry = "tool" /\ pc = "done" /\ Len(chunks) >= 2 /\ failed # {}) =>
        /\ result \in ErrorResults
        /\ output.state # "written"

\* C5: for a non-blank text, split_text returns no empty segment.
C5_NoEmptySegment ==
    (Returned("split_text") /\ ~IsBlank(text)) =>
        \A k \in 1..Len(chunks) : chunks[k] # <<>>

\* C6: split_text drops nothing but whitespace: the non-whitespace characters
\* of the segments, concatenated, are those of the text, in the same order
\* (literal "|" included).
C6_SplitTextKeepsNonWhitespace ==
    Returned("split_text") =>
        NonWhitespace(Flatten(chunks)) = NonWhitespace(text)

\* C7: the chunks of _chunk_text, concatenated, have the non-whitespace
\* character sequence of the text: nothing added, dropped or reordered.
C7_ChunkTextKeepsNonWhitespace ==
    Returned("_chunk_text") =>
        NonWhitespace(Flatten(chunks)) = NonWhitespace(text)

\* C8: in _process_chunks and in convert_script_to_audio the synthesizer is
\* called one call at a time, call k is the call for chunk k (so no chunk is
\* called twice, skipped or taken out of order), a loop that runs to its end
\* has called every chunk, and the combined stream holds the audio of the
\* chunks in increasing chunk order.
C8_SequentialInOrder ==
    /\ Cardinality(inflight) <= 1
    /\ \A k \in 1..Len(calls) :
           calls[k].site # "_run" =>
               calls[k].index = k /\ calls[k].input = chunks[k]
    /\ pc \in {"export", "finally", "combine", "script_export"} =>
           Len(calls) = Len(chunks)
    /\ (pc = "done" /\ exit \in {"success", "export_failure"}
          /\ (entry = "script" \/ chunks # <<>>)) =>
           Len(calls) = Len(chunks)
    /\ \A a, b \in 1..Len(combined) : a < b => combined[a] < combined[b]
    /\ \A a \in 1..Len(combined) :
           \E k \in 1..Len(calls) : calls[k].index = combined[a]
    /\ (entry = "script" /\ pc = "done" /\ exit = "success"
          /\ Len(chunks) >= 2) =>
           combined = [k \in 1..Len(chunks) |-> k]

\* a job of three chunks or more whose audio was all combined
C8_Witness ==
    /\ pc = "done"
    /\ Len(chunks) >= 3
    /\ Len(calls) = Len(chunks)
    /\ Len(combined) = Len(chunks)

\* the exit paths of the multi-chunk branch of convert_script_to_audio that
\* C9 names
C9_ExitPaths == {"success", "synthesis_failure", "decode_failure",
                 "export_failure"}

C10_ShortTextSingleSegment ==
    (pc = "returned" /\ Len(text) <= max_length) => chunks = <<text>>

\* a text within the limit that holds a paragraph separator
C10_Witness ==
    /\ pc = "returned"
    /\ Len(text) <= max_length
    /\ \E k \in 1..Len(text) : OccursAt(text, <<NL, NL>>, k)

\* t has a paragraph separator, a sentence terminator followed by a space,
\* or a space
HasSplitPoint(t) ==
    \E k \in 1..Len(t) :
        \/ OccursAt(t, <<NL, NL>>, k)
        \/ OccursAt(t, <<DOT, SP>>, k)
        \/ OccursAt(t, <<BANG, SP>>, k)
        \/ OccursAt(t, <<QUERY, SP>>, k)
        \/ t[k] = SP

\* C11: for a text longer than max_length without paragraph separator,
\* without sentence terminator followed by a space and without space,
\* split_text returns exactly one segment, the whole text.
C11_UnsplittableTextOneSegment ==
    (Returned("split_text") /\ Len(text) > max_length /\ ~HasSplitPoint(text))
        => chunks = <<text>>

\* the paragraphs lo..hi of ps joined by the paragraph separator
RECURSIVE JoinParagraphs(_, _, _)
JoinParagraphs(ps, lo, hi) ==
    IF lo > hi THEN <<>>
    ELSE IF lo = hi THEN ps[lo]
    ELSE ps[lo] \o <<NL, NL>> \o JoinParagraphs(ps, lo + 1, hi)

\* segs packs the paragraphs from..Len(ps) greedily: each segment is the
\* join of a run of consecutive paragraphs, the runs follow each other in
\* order, a paragraph outside every run is empty, each segment is within the
\* limit, and a run ends before paragraph b + 1 only if that paragraph and
\* the separator would not fit any more
RECURSIVE IsGreedyPacking(_, _, _, _)
IsGreedyPacking(segs, ps, from, limit) ==
    IF segs = <<>>
    THEN \A k \in from..Len(ps) : ps[k] = <<>>
    ELSE \E a \in from..Len(ps) : \E b \in a..Len(ps) :
            /\ \A k \in from..(a - 1) : ps[k] = <<>>
            /\ Head(segs) = JoinParagraphs(ps, a, b)
            /\ Len(Head(segs)) <= limit
            /\ b < Len(ps) => Len(Head(segs)) + Len(ps[b + 1]) + 2 > limit
            /\ IsGreedyPacking(Tail(segs), ps, b + 1, limit)

ParagraphsFit(t, limit) ==
    LET ps == str_split(t, <<NL, NL>>)
    IN  \A k \in 1..Len(ps) : Len(ps[k]) <= limit

\* C12: for a text longer than the limit whose paragraphs are each within
\* the limit, split_text and _chunk_text pack greedily: each segment is the
\* double-newline join of consecutive paragraphs in original order, each is
\* within the limit, and a segment is closed only when the next paragraph
\* plus the 2-character separator would exceed the limit.
C12_GreedyParagraphPacking ==
    (pc = "returned" /\ Len(text) > max_length
       /\ ParagraphsFit(text, max_length)) =>
        IsGreedyPacking(chunks, str_split(text, <<NL, NL>>), 1, max_length)

\* three equal paragraphs, two of which fit a segment together: the first
\* two share a segment, the third has its own
C12_Witness ==
    /\ pc = "returned"
    /\ Len(text) > max_length
    /\ LET ps == str_split(text, <<NL, NL>>)
       IN  /\ Len(ps) = 3
           /\ \A k \in 1..3 : ps[k] # <<>> /\ Len(ps[k]) = Len(ps[1])
           /\ chunks = <<JoinParagraphs(ps, 1, 2), ps[3]>>

RECURSIVE RStrip(_)
RStrip(s) ==
    IF s # <<>> /\ s[Len(s)] \in Whitespace
    THEN RStrip(SubSeq(s, 1, Len(s) - 1))
    ELSE s

IsSubstring(w, t) == w = <<>> \/ \E k \in 1..Len(t) : OccursAt(t, w, k)

\* C13: every segment returned by split_text is, after removing trailing
\* whitespace, a contiguous substring of the input text.
C13_SegmentsAreSubstrings ==
    Returned("split_text") =>
        \A k \in 1..Len(chunks) : IsSubstring(RStrip(chunks[k]), text)

\* ------------------------------------------------ file_archiver.archive_files
\* file_archiver.py lines 8-13: the names bound in the module (builtins
\* aside); pathlib.Path is not imported
ModuleGlobals == {"os", "shutil", "settings", "archive_files"}

\* paths relative to a directory, as tuples of components
RelPaths == {<<"a.txt">>, <<"txt", "a.txt">>, <<"txt", "sub", "b.txt">>}

\* the file argument: under settings.KNOWLEDGE_DIR or under another directory
Files == [dir : {"knowledge", "other"}, rel : RelPaths]

\* settings.py lines 47-48 create both directories at import; KNOWLEDGE_DIR
\* may have been removed since, with everything under it
InitArchive ==
    /\ file \in Files
    /\ knowledge_exists \in BOOLEAN
    /\ knowledge \in IF knowledge_exists THEN SUBSET RelPaths ELSE {{}}
    /\ archive \in SUBSET RelPaths
    /\ entry = "archive"
    /\ pc = "start"
    /\ text = <<>>
    /\ max_length = MaxLimit
    /\ fn = "none"
    /\ chunks = <<>>
    /\ i = 0
    /\ calls = <<>>
    /\ inflight = {}
    /\ temp_files = <<>>
    /\ fs_temp = {}
    /\ combined = <<>>
    /\ output = NoFile
    /\ result = "none"
    /\ failed = {}
    /\ exit = "none"
    /\ language = None
    /\ voice_arg = None
    /\ voice = None
    /\ FlowIdle

\* file_archiver.py lines 13-52: archive_files(file).
\* line 25-27: return when KNOWLEDGE_DIR does not exist;
\* line 32: Path(file) looks up the name Path, which is unbound: NameError,
\*   not caught by "except ValueError";
\* with Path bound: relative_to succeeds for a file under KNOWLEDGE_DIR and
\*   line 47 reads rel_path_str, bound only in the except branch
\*   (UnboundLocalError); for a file elsewhere os.path.relpath gives a path
\*   that starts with "..", so shutil.move puts the file outside ARCHIVE_DIR
\*   (FileNotFoundError when the file does not exist).
archive_files_exit(under_knowledge) ==
    IF ~knowledge_exists THEN "no_knowledge_dir"
    ELSE IF "Path" \notin ModuleGlobals THEN "NameError"
    ELSE IF under_knowledge THEN "UnboundLocalError"
    ELSE "moved_outside_archive"

\* the exits of archive_files that are exceptions
ArchiveRaises == {"NameError", "UnboundLocalError"}

\* a call of archive_files(file)
archive_files ==
    /\ entry = "archive" /\ pc = "start"
    /\ pc' = "done"
    /\ exit' = archive_files_exit(file.dir = "knowledge")
    /\ result' = IF exit' \in ArchiveRaises THEN "raised" ELSE None
    /\ UNCHANGED <<text, max_length, fn, chunks, entry, i, calls, inflight,
                   temp_files, fs_temp, combined, output, failed, language,
                   voice_arg, voice, archvars, flowvars>>

NextArchive == archive_files

SpecArchive == InitArchive /\ [][NextArchive]_vars

\* ------------------------------------------------- file_finder.find_files
\* file_finder.py lines 31-40: the keys of file_types, in dict order
FileTypes == <<"txt", "csv", "docx", "html", "md", "pdf", "pptx", "xlsx">>

FileTypeSet == Range(FileTypes)

\* a path below the knowledge directory: the directories from there, the
\* name before the last dot and the extension after it
PathOf(dir, stem, ext) == [dir |-> dir, stem |-> stem, ext |-> ext]

\* the files that may lie below the knowledge directory: files of the type
\* of their directory, at its top and deeper, a file of another type, a file
\* outside every type directory and the hidden file ".txt"
FindPaths ==
    {PathOf(<<"txt">>, "a", "txt"), PathOf(<<"txt", "sub">>, "b", "txt"),
     PathOf(<<"txt">>, "c", "csv"), PathOf(<<"csv">>, "d", "csv"),
     PathOf(<<"pptx">>, "e", "pptx"), PathOf(<<>>, "f", "txt"),
     PathOf(<<"txt">>, "", "txt")}

\* a path a list holds from an earlier call
OldPath(t) == PathOf(<<"old">>, "old", t)

\* the type directories that hold the files of fs
DirsOf(fs) == {p.dir[1] : p \in {q \in fs : q.dir # <<>>}}

\* every sequence that lists the elements of S once
Orderings(S) ==
    {o \in [1..Cardinality(S) -> S] : \A a, b \in DOMAIN o : o[a] = o[b] => a = b}

\* SelectSeq with the test given as a set
SeqFilter(s, S) ==
    LET F[k \in 0..Len(s)] ==
            IF k = 0 THEN <<>>
            ELSE IF s[k] \in S THEN Append(F[k - 1], s[k]) ELSE F[k - 1]
    IN F[Len(s)]

\* line 46: the paths knowledge/t/**/*.t of glob.glob(pattern, recursive=True):
\* any depth below knowledge/t, extension t, names that start with a dot left out
GlobMatches(fs, t) ==
    {p \in fs : p.dir # <<>> /\ p.dir[1] = t /\ p.ext = t /\ p.stem # ""}

\* find_files with the os.path.exists(type_dir) test of line 45 left out
find_files_no_dir_test(ds, scan) ==
    IF ~knowledge_exists THEN ds
    ELSE [t \in FileTypeSet |->
            SeqFilter(scan, GlobMatches(knowledge, t))]

\* file_finder.py lines 15-51: find_files(knowledge_dir, document_state);
\* scan is the order in which the directory scan of glob meets the files
find_files(ds, scan) ==
    IF ~knowledge_exists THEN ds
    ELSE [t \in FileTypeSet |->
            IF t \in type_dirs
            THEN SeqFilter(scan, GlobMatches(knowledge, t))
            ELSE ds[t]]

\* the directory scan meets every file once, in an order of its own
ScanOrders == Orderings(UNION {GlobMatches(knowledge, t) : t \in FileTypeSet})

\* the knowledge directory may be missing; a type directory may exist empty
FileSystems(paths, empty_dirs) ==
    /\ knowledge_exists \in BOOLEAN
    /\ knowledge \in IF knowledge_exists THEN SUBSET paths ELSE {{}}
    /\ type_dirs \in IF knowledge_exists
                     THEN {DirsOf(knowledge) \cup extra :
                             extra \in SUBSET empty_dirs}
                     ELSE {{}}
    /\ archive = {}
    /\ file = <<>>

\* the variables of the chunkers and of the audio job, unused
NoJob ==
    /\ text = <<>>
    /\ max_length = MaxLimit
    /\ fn = "none"
    /\ chunks = <<>>
    /\ i = 0
    /\ calls = <<>>
    /\ inflight = {}
    /\ temp_files = <<>>
    /\ fs_temp = {}
    /\ combined = <<>>
    /\ output = NoFile
    /\ result = "none"
    /\ failed = {}
    /\ exit = "none"
    /\ language = None
    /\ voice_arg = None
    /\ voice = None

\* find_files called with a document_state whose lists may hold paths
InitFind ==
    /\ FileSystems(FindPaths, {"txt", "md"})
    /\ \E populated \in SUBSET {"txt", "md", "pptx", "xlsx"} :
         document_state = [t \in FileTypeSet |->
                             IF t \in populated THEN <<OldPath(t)>> ELSE <<>>]
    /\ entry = "find_files"
    /\ pc = "start"
    /\ steps = <<>>
    /\ proc = <<>>
    /\ indexed = <<>>
    /\ archived = <<>>
    /\ crew_ok = TRUE
    /\ NoJob

\* a call of find_files("knowledge", document_state)
CallFindFiles ==
    /\ entry = "find_files" /\ pc = "start"
    /\ \E scan \in ScanOrders : document_state' = find_files(document_state, scan)
    /\ pc' = "done"
    /\ UNCHANGED <<text, max_length, fn, chunks, jobvars, archvars, type_dirs,
                   steps, proc, indexed, archived, crew_ok>>

NextFind == CallFindFiles

SpecFind == InitFind /\ [][NextFind]_vars

\* ------------------------------------------------------ main.py: SonicFlow
\* main.py lines 58-91: the index steps
IndexSteps ==
    {"index_text", "index_csv", "index_docx", "index_html", "index_md",
     "index_pdf", "index_xlsx"}

FlowSteps ==
    {"list_files", "start_indexing", "end_indexing", "start_research",
     "end_research"} \cup IndexSteps

\* every index step with the list of index_text (line 61 copied as it is)
StepListCopied(s) == "txt"

\* lines 61, 66, 71, 76, 81, 86, 91: the list each index step hands to
\* process_files
StepList(s) ==
    CASE s = "index_text" -> "txt"
      [] s = "index_csv" -> "csv"
      [] s = "index_docx" -> "docx"
      [] s = "index_html" -> "html"
      [] s = "index_md" -> "md"
      [] s = "index_pdf" -> "pdf"
      [] s = "index_xlsx" -> "xlsx"

\* the condition of end_indexing with or_ in the place of and_
TriggeredOr(s) ==
    CASE s = "list_files" -> TRUE
      [] s = "start_indexing" -> steps["list_files"] = "done"
      [] s \in IndexSteps -> steps["start_indexing"] = "done"
      [] s = "end_indexing" ->
            \E t \in IndexSteps \cup {"start_indexing"} : steps[t] = "done"
      [] s = "start_research" -> steps["end_indexing"] = "done"
      [] s = "end_research" -> steps["start_research"] = "done"

\* the decorators: @start() (line 44), @router(list_files) (line 51),
\* @listen(start_indexing) (lines 58-88), @listen(and_(...)) (lines 93-104),
\* @listen(end_indexing) (line 110), @listen(start_research) (line 134).
\* A method is triggered when the method it listens to has returned, and_
\* when all of them have.
Triggered(s) ==
    CASE s = "list_files" -> TRUE
      [] s = "start_indexing" -> steps["list_files"] = "done"
      [] s \in IndexSteps -> steps["start_indexing"] = "done"
      [] s = "end_indexing" ->
            \A t \in IndexSteps \cup {"start_indexing"} : steps[t] = "done"
      [] s = "start_research" -> steps["end_indexing"] = "done"
      [] s = "end_research" -> steps["start_research"] = "done"

\* the files of a SonicFlow run
FlowPaths ==
    {PathOf(<<"txt">>, "a", "txt"), PathOf(<<"txt", "sub">>, "b", "txt"),
     PathOf(<<"csv">>, "d", "csv"), PathOf(<<"pptx">>, "e", "pptx")}

\* process_files has not been called
NoProc == [file_list |-> <<>>, k |-> 0, phase |-> "none"]

\* kickoff(): SonicFlow() with the default SonicState (models.py lines 28-36)
InitFlow ==
    /\ FileSystems(FlowPaths, {})
    /\ crew_ok \in BOOLEAN
    /\ document_state = [t \in FileTypeSet |-> <<>>]
    /\ steps = [s \in FlowSteps |-> "idle"]
    /\ proc = [s \in IndexSteps |-> NoProc]
    /\ indexed = [s \in IndexSteps |-> <<>>]
    /\ archived = [s \in IndexSteps |-> <<>>]
    /\ entry = "flow"
    /\ pc = "start"
    /\ NoJob

\* the flow starts a triggered method that is not an index step
Begin(s) ==
    /\ entry = "flow"
    /\ s \notin IndexSteps
    /\ steps[s] = "idle"
    /\ Triggered(s)
    /\ steps' = [steps EXCEPT ![s] = "running"]
    /\ pc' = "running"
    /\ UNCHANGED <<text, max_length, fn, chunks, jobvars, archvars, type_dirs,
                   document_state, proc, indexed, archived, crew_ok>>

\* lines 44-49: list_files: a new DocumentState through find_files
ListFiles ==
    /\ entry = "flow"
    /\ steps["list_files"] = "running"
    /\ \E scan \in ScanOrders :
         document_state' = find_files([t \in FileTypeSet |-> <<>>], scan)
    /\ steps' = [steps EXCEPT !["list_files"] = "done"]
    /\ UNCHANGED <<text, max_length, pc, fn, chunks, jobvars, archvars,
                   type_dirs, proc, indexed, archived, crew_ok>>

\* lines 51-54, 105-107: start_indexing and end_indexing only log
LogStep(s) ==
    /\ entry = "flow"
    /\ s \in {"start_indexing", "end_indexing"}
    /\ steps[s] = "running"
    /\ steps' = [steps EXCEPT ![s] = "done"]
    /\ UNCHANGED <<text, max_length, pc, fn, chunks, jobvars, archvars,
                   type_dirs, document_state, proc, indexed, archived, crew_ok>>

\* lines 110-131: start_research: the output directory, the query, the
\* research crew; lines 134-140: end_research: the poem crew
CrewStep(s) ==
    /\ entry = "flow"
    /\ s \in {"start_research", "end_research"}
    /\ steps[s] = "running"
    /\ \E kickoff \in IOOutcomes :
         steps' = [steps EXCEPT
                     ![s] = IF kickoff = "ok" THEN "done" ELSE "raised"]
    /\ pc' = IF s = "end_research" \/ steps'[s] = "raised"
             THEN "done" ELSE pc
    /\ UNCHANGED <<text, max_length, fn, chunks, jobvars, archvars, type_dirs,
                   document_state, proc, indexed, archived, crew_ok>>

\* ------------------------------------------ file_processor.process_files
\* main.py lines 58-91 and file_processor.py lines 25-27: an index step calls
\* process_files with its list; IndexerCrew() is built before the loop, outside
\* the try, and what it raises leaves the step
BeginIndex(s) ==
    /\ entry = "flow"
    /\ s \in IndexSteps
    /\ steps[s] = "idle"
    /\ Triggered(s)
    /\ steps' = [steps EXCEPT ![s] = IF crew_ok THEN "running" ELSE "raised"]
    /\ proc' = [proc EXCEPT
                  ![s] = [file_list |-> document_state[StepList(s)],
                          k |-> 1,
                          phase |-> IF crew_ok THEN "index" ELSE "raised"]]
    /\ UNCHANGED <<text, max_length, pc, fn, chunks, jobvars, archvars,
                   type_dirs, document_state, indexed, archived, crew_ok>>

\* the file the loop of step s is at
CurrentFile(s) == proc[s].file_list[proc[s].k]

\* the next iteration of the loop
NextFile(s) == [proc EXCEPT ![s].k = @ + 1, ![s].phase = "index"]

\* IndexFile with archive_files in a finally clause: called after a failed
\* indexing too
IndexFileThenAlwaysArchive(s) ==
    /\ entry = "flow"
    /\ s \in IndexSteps
    /\ steps[s] = "running"
    /\ proc[s].phase = "index"
    /\ proc[s].k <= Len(proc[s].file_list)
    /\ \E add \in IOOutcomes :
         indexed' = [indexed EXCEPT
                       ![s] = Append(@, [file |-> CurrentFile(s),
                                         outcome |-> add])]
    /\ proc' = [proc EXCEPT ![s].phase = "archive"]
    /\ UNCHANGED <<text, max_length, pc, fn, chunks, jobvars, archvars,
                   type_dirs, document_state, steps, archived, crew_ok>>

\* IndexFile with the try around the loop: an exception ends the loop
IndexFileStopOnError(s) ==
    /\ entry = "flow"
    /\ s \in IndexSteps
    /\ steps[s] = "running"
    /\ proc[s].phase = "index"
    /\ proc[s].k <= Len(proc[s].file_list)
    /\ \E add \in IOOutcomes :
         /\ indexed' = [indexed EXCEPT
                          ![s] = Append(@, [file |-> CurrentFile(s),
                                            outcome |-> add])]
         /\ proc' = IF add = "ok"
                    THEN [proc EXCEPT ![s].phase = "archive"]
                    ELSE [proc EXCEPT ![s].k = Len(proc[s].file_list) + 1]
    /\ UNCHANGED <<text, max_length, pc, fn, chunks, jobvars, archvars,
                   type_dirs, document_state, steps, archived, crew_ok>>

\* file_processor.py lines 29-34, 36-37 and indexer_crew.py lines 62-73:
\* indexer.process_file adds the file to the RAG tool; an exception is logged
\* and the loop goes on with the next file
IndexFile(s) ==
    /\ entry = "flow"
    /\ s \in IndexSteps
    /\ steps[s] = "running"
    /\ proc[s].phase = "index"
    /\ proc[s].k <= Len(proc[s].file_list)
    /\ \E add \in IOOutcomes :
         /\ indexed' = [indexed EXCEPT
                          ![s] = Append(@, [file |-> CurrentFile(s),
                                            outcome |-> add])]
         /\ proc' = IF add = "ok"
                    THEN [proc EXCEPT ![s].phase = "archive"]
                    ELSE NextFile(s)
    /\ UNCHANGED <<text, max_length, pc, fn, chunks, jobvars, archvars,
                   type_dirs, document_state, steps, archived, crew_ok>>

\* file_processor.py lines 35-37: archive_files(file); it returns or raises
\* without having moved the file, and an exception is logged
ArchiveFile(s) ==
    /\ entry = "flow"
    /\ s \in IndexSteps
    /\ steps[s] = "running"
    /\ proc[s].phase = "archive"
    /\ archived' = [archived EXCEPT
                      ![s] = Append(@, [file |-> CurrentFile(s),
                                        exit |-> archive_files_exit(TRUE)])]
    /\ proc' = NextFile(s)
    /\ UNCHANGED <<text, max_length, pc, fn, chunks, jobvars, archvars,
                   type_dirs, document_state, steps, indexed, crew_ok>>

\* the loop is over: process_files and the index step return
EndIndex(s) ==
    /\ entry = "flow"
    /\ s \in IndexSteps
    /\ steps[s] = "running"
    /\ proc[s].phase = "index"
    /\ proc[s].k > Len(proc[s].file_list)
    /\ steps' = [steps EXCEPT ![s] = "done"]
    /\ proc' = [proc EXCEPT ![s].phase = "returned"]
    /\ UNCHANGED <<text, max_length, pc, fn, chunks, jobvars, archvars,
                   type_dirs, document_state, indexed, archived, crew_ok>>

NextFlow ==
    \/ \E s \in FlowSteps : Begin(s)
    \/ ListFiles
    \/ \E s \in FlowSteps : LogStep(s)
    \/ \E s \in FlowSteps : CrewStep(s)
    \/ \E s \in IndexSteps : BeginIndex(s)
    \/ \E s \in IndexSteps : IndexFile(s)
    \/ \E s \in IndexSteps : ArchiveFile(s)
    \/ \E s \in IndexSteps : EndIndex(s)

SpecFlow == InitFlow /\ [][NextFlow]_vars

\* what an entry point gives back when it did not do the job
FailureResults ==
    ErrorResults \cup {"False", "raised", "Script file is empty",
                       "Script file not found",
                       "Error generating podcast audio",
                       "Failed to generate audio file"}

\* C14: for an empty or whitespace-only text, OpenAITTSTool._run,
\* PodcastAudioGeneratorTool._run and convert_script_to_audio return an
\* error or failure result, make no synthesis call and neither create nor
\* modify the output file.
C14_BlankInputRejected ==
    NonWhitespace(text) = <<>> =>
        /\ calls = <<>>
        /\ inflight = {}
        /\ output.state # "written"
        /\ pc = "done" => result \in FailureResults \ {"raised"}

\* PodcastAudioGeneratorTool._run has refused a script of whitespace only
C14_Witness ==
    /\ pc = "done"
    /\ entry = "podcast"
    /\ text # <<>>
    /\ NonWhitespace(text) = <<>>
    /\ result = "Script file is empty"

\* C15: whenever the text given to OpenAITTSTool._run yields exactly one
\* segment (a text longer than MAX_CHUNK_SIZE that the chunker cannot split
\* included), the bytes written to output_file are the bytes of the single
\* synthesis call, never decoded and encoded again.
C15_SingleSegmentNotReencoded ==
    (entry = "tool" /\ pc = "done" /\ output.state = "written"
       /\ Len(calls) = 1 /\ Len(chunks) <= 1) =>
        output.encoding = "raw"

\* C16: OpenAITTSTool._run returns "Audio saved to" only if the output file
\* was written and holds audio: never for a zero-byte file, never for an
\* output made of zero synthesized chunks.
C16_SuccessMeansAudio ==
    (entry = "tool" /\ pc = "done" /\ result = "Audio saved to") =>
        /\ output.state = "written"
        /\ output.audio # <<>>

\* C17: in convert_script_to_audio with two chunks or more, if the synthesis
\* call for chunk k fails, no later chunk is synthesized, the output file is
\* neither created nor modified, and when the failure reaches the caller
\* every temporary file of the chunks before k has been removed.
C17_ScriptFailureAborts ==
    (entry = "script" /\ Len(chunks) >= 2 /\ failed # {}) =>
        /\ \A k \in failed : \A c \in 1..Len(calls) : calls[c].index <= k
        /\ output.state # "written"
        /\ pc = "done" => (result = "raised" /\ fs_temp = {})

\* the call for chunk 2 of 3 failed after a temporary file had been written
\* for chunk 1
C17_Witness ==
    /\ entry = "script"
    /\ pc = "done"
    /\ Len(chunks) >= 3
    /\ failed = {2}
    /\ temp_files = <<1>>

\* the voice of the claim for each language argument of the model
C18_VoiceOfLanguage ==
    ("english" :> "alloy") @@ ("french" :> "nova") @@ ("FRENCH" :> "nova") @@
    ("Dutch" :> "fable") @@ ("klingon" :> "alloy")

\* C18: when OpenAITTSTool._run is called without a voice, every synthesis
\* call of the job gets the voice LANGUAGE_VOICE_MAP[lowercase(language)] if
\* that key exists ("french" and "FRENCH" give "nova") and "alloy" otherwise.
C18_VoiceFromLanguage ==
    (InTool /\ voice_arg \in {None, ""}) =>
        \A c \in 1..Len(calls) : calls[c].voice = C18_VoiceOfLanguage[language]

\* a job of several chunks for language "FRENCH" without a voice
C18_Witness ==
    /\ entry = "tool"
    /\ pc = "done"
    /\ voice_arg = None
    /\ language = "FRENCH"
    /\ Len(calls) >= 2

\* C20: OpenAITTSTool._run never raises: whatever fails (audio library
\* import, synthesis, decode or export, output directory or file write, a
\* failure in _process_chunks before temp_files exists), it returns the
\* "Audio saved to" message or a message that starts with "Error".
C20_RunAlwaysReturnsString ==
    (\/ entry = "tool" /\ pc = "done"
     \/ entry = "podcast" /\ pc = "podcast_verify") =>
        result \in {"Audio saved to"} \cup ErrorResults

\* _process_chunks failed at the import, before temp_files was bound
C20_Witness ==
    /\ entry = "tool"
    /\ pc = "done"
    /\ exit = "import_failure"

\* C19: after archive_files(file) is called for an existing file under the
\* knowledge directory, the file is no longer at its original path and is in
\* the archive directory under the same relative path.
C19_FileMovedToArchive ==
    [][(/\ entry = "archive" /\ pc = "start"
        /\ file.dir = "knowledge"
        /\ file.rel \in knowledge)
       => (/\ file.rel \notin knowledge'
           /\ file.rel \in archive')]_vars

\* C21: for every non-blank text and every max_chars >= 1, _chunk_text
\* returns at least one chunk and no chunk is the empty string.
C21_ChunkTextAtLeastOneChunk ==
    (Returned("_chunk_text") /\ NonWhitespace(text) # <<>>) =>
        /\ Len(chunks) >= 1
        /\ \A k \in 1..Len(chunks) : chunks[k] # <<>>

\* C26: PodcastAudioGeneratorTool._run returns "Successfully generated audio
\* file" only if the TTS call of this invocation succeeded and wrote
\* output_file; when the TTS call returns an error the tool returns an error
\* message, even if a file of an earlier run exists at output_file.
C26_PodcastSuccessMeansTTSSuccess ==
    (entry = "podcast" /\ pc = "done"
       /\ result = "Successfully generated audio file") =>
        /\ exit = "success"
        /\ output.state = "written"

\* C28: when the caller gives both a voice and a language, the voice given is
\* the voice of every synthesis call, in OpenAITTSTool._run and in
\* convert_script_to_audio alike.
C28_ExplicitVoiceWins ==
    (entry \in {"tool", "script"} /\ voice_arg \notin {None, ""}
       /\ language \notin {None, ""}) =>
        \A c \in 1..Len(calls) : calls[c].voice = voice_arg

\* C29: find_files changes only what it finds: without a knowledge directory
\* every list is unchanged; the list of a file type whose directory
\* knowledge/<type> does not exist is unchanged; every path it stores in
\* list_<type> lies under knowledge/<type> and ends with ".<type>".
C29_FindFilesFrame ==
    [][(entry = "find_files" /\ pc = "start") =>
        /\ ~knowledge_exists => document_state' = document_state
        /\ \A t \in FileTypeSet :
             IF t \notin type_dirs
             THEN document_state'[t] = document_state[t]
             ELSE \A k \in 1..Len(document_state'[t]) :
                    LET p == document_state'[t][k]
                    IN /\ p \in knowledge
                       /\ p.dir # <<>> /\ p.dir[1] = t
                       /\ p.ext = t]_vars

\* find_files has kept the list of a missing type directory and replaced the
\* list of txt by the two txt files below knowledge/txt
C29_Witness ==
    /\ entry = "find_files" /\ pc = "done"
    /\ "pptx" \notin type_dirs
    /\ document_state["pptx"] = <<OldPath("pptx")>>
    /\ Len(document_state["txt"]) = 2
    /\ document_state["md"] = <<>>
    /\ "md" \in type_dirs

\* the files step s has passed to indexer.process_file, in call order
IndexedFiles(s) == [k \in 1..Len(indexed[s]) |-> indexed[s][k].file]

\* the files step s has passed to archive_files
ArchivedFiles(s) == {archived[s][k].file : k \in 1..Len(archived[s])}

\* C22: in SonicFlow start_research begins only after list_files and every
\* index step have completed, end_research begins only after start_research
\* has completed, and no research or poem step overlaps an index step.
C22_ResearchAfterIndexing ==
    /\ steps["start_research"] # "idle" =>
         /\ steps["list_files"] = "done"
         /\ \A s \in IndexSteps : steps[s] = "done"
    /\ steps["end_research"] # "idle" => steps["start_research"] = "done"
    /\ \A s \in IndexSteps, r \in {"start_research", "end_research"} :
         ~(steps[s] = "running" /\ steps[r] = "running")

\* the poem step runs after two files were indexed
C22_Witness ==
    /\ entry = "flow"
    /\ steps["end_research"] = "running"
    /\ Len(indexed["index_text"]) = 1
    /\ Len(indexed["index_csv"]) = 1

\* C23: every file list that find_files fills (txt, csv, docx, html, md, pdf,
\* pptx, xlsx) is handed to process_files by an index step before
\* end_indexing runs.
C23_EveryListProcessed ==
    (entry = "flow" /\ steps["end_indexing"] # "idle") =>
        \A t \in FileTypeSet : \A k \in 1..Len(document_state[t]) :
            \E s \in IndexSteps :
                document_state[t][k] \in Range(proc[s].file_list)

\* C24: in process_files archive_files(file) is called only after
\* indexer.process_file has returned without an exception for that file; a
\* file whose indexing raised is never archived and stays in the knowledge
\* directory.
C24_ArchiveOnlyAfterIndexing ==
    entry = "flow" =>
        \A s \in IndexSteps :
            /\ \A f \in ArchivedFiles(s) :
                 \E j \in 1..Len(indexed[s]) :
                     indexed[s][j] = [file |-> f, outcome |-> "ok"]
            /\ \A j \in 1..Len(indexed[s]) :
                 indexed[s][j].outcome = "fail" =>
                     /\ \A q \in IndexSteps :
                          indexed[s][j].file \notin ArchivedFiles(q)
                     /\ indexed[s][j].file \in knowledge
                     /\ indexed[s][j].file \notin archive

\* of two txt files the indexing of one raised and archive_files was called
\* for the other
C24_Witness ==
    /\ entry = "flow"
    /\ Len(indexed["index_text"]) = 2
    /\ \E j \in 1..2 : indexed["index_text"][j].outcome = "fail"
    /\ Len(archived["index_text"]) = 1

\* C25: process_files makes exactly one indexing attempt for every file of
\* file_list, in list order: an exception raised while indexing or archiving
\* one file does not stop or skip the files after it.
C25_EveryFileAttemptedOnce ==
    entry = "flow" =>
        \A s \in IndexSteps :
            /\ Len(indexed[s]) <= Len(proc[s].file_list)
            /\ \A k \in 1..Len(indexed[s]) :
                 indexed[s][k].file = proc[s].file_list[k]
            /\ steps[s] = "done" => IndexedFiles(s) = proc[s].file_list

\* process_files has returned after the indexing of the first file raised and
\* the archiving of the second raised
C25_Witness ==
    /\ entry = "flow"
    /\ steps["index_text"] = "done"
    /\ Len(proc["index_text"].file_list) = 2
    /\ Len(indexed["index_text"]) = 2
    /\ indexed["index_text"][1].outcome = "fail"
    /\ indexed["index_text"][2].outcome = "ok"
    /\ Len(archived["index_text"]) = 1
    /\ archived["index_text"][1].exit \in ArchiveRaises

\* C27: during a SonicFlow run whose index steps run concurrently no file
\* path is passed to the add operation of the shared RAG tool by more than one
\* index step and none is added twice: the lists of find_files are pairwise
\* disjoint.
C27_NoFileAddedTwice ==
    entry = "flow" =>
        /\ \A s1, s2 \in IndexSteps :
             \A k1 \in 1..Len(indexed[s1]), k2 \in 1..Len(indexed[s2]) :
                 indexed[s1][k1].file = indexed[s2][k2].file =>
                     (s1 = s2 /\ k1 = k2)
        /\ \A t1, t2 \in FileTypeSet :
             t1 # t2 =>
                 Range(document_state[t1]) \cap Range(document_state[t2]) = {}

\* index_text and index_csv both run and each has added a file
C27_Witness ==
    /\ entry = "flow"
    /\ steps["index_text"] = "running"
    /\ steps["index_csv"] = "running"
    /\ Len(indexed["index_text"]) >= 1
    /\ Len(indexed["index_csv"]) >= 1

====
